---- MODULE Spec2Model ----
(***************************************************************************)
(* Amana Chat: the Chat component (src/app/components/Chat.tsx) as a state *)
(* machine.  One browser tab runs the component; every run of the          *)
(* initialization effect is a "session" s in Sessions with its own Ably    *)
(* client, connection and channel object.  The Ably service (channel log,  *)
(* presence set, connection events) and the other participants are the     *)
(* environment.                                                            *)
(*                                                                         *)
(* What the environment is taken to do (the Ably client the code calls):   *)
(*  - a connection goes connecting -> connected <-> disconnected (a first  *)
(*    attempt that does not get through goes connecting -> disconnected),  *)
(*    may fail, and is closed by close(); only 'connected', 'disconnected' *)
(*    and 'failed' reach the listeners the code registers;                 *)
(*  - channel.subscribe registers the listener at the call and resolves    *)
(*    once the channel is attached; events published after the attach are  *)
(*    delivered in order, each at some later time;                         *)
(*  - channel.history is a request answered from the channel's log as it   *)
(*    is when answered, independently of event delivery;                   *)
(*  - the presence set holds one member per connection (two connections    *)
(*    may use the same clientId); presence.update by a connection that has *)
(*    no member yet enters it; a connection that closes or fails loses its *)
(*    member; enter and leave events reach every registered handler of a   *)
(*    connected connection of this tab at once;                            *)
(*  - every awaited call may reject.                                       *)
(*                                                                         *)
(* The two route handlers (src/app/api/ai-reply/route.ts and              *)
(* src/app/api/ably-token/route.ts) are modelled further down, each as the *)
(* invocations of one handler with the upstream service, respectively the  *)
(* Ably REST client, as its environment.                                   *)
(*                                                                         *)
(* The specifications share the variables:                                 *)
(*  Spec         every run of the initialization effect under display-name *)
(*               changes and unmount, with the tab's own presence entries  *)
(*               (a connection connects or fails; it does not drop);       *)
(*  SpecSession  the first session with the other participants: message    *)
(*               events, history load, presence snapshot and events;       *)
(*  SpecSend     handleSendMessage over the first session's connection;    *)
(*  SpecRoster   the presence enter/leave handlers on arbitrary events;     *)
(*  SpecEcho     message events with the session's own publishes;          *)
(*  SpecReply    the AI reply route;                                       *)
(*  SpecToken    the token route.                                          *)
(* SpecSession and SpecSend leave the display name as generated: the       *)
(* message list, the roster snapshot and a send reach a session only       *)
(* through its own channel object, and what another session's teardown can *)
(* do to them (a closed connection, a rejected publish) they already meet  *)
(* through ConnFailed, Unmount and the rejecting calls.                    *)
(***************************************************************************)
EXTENDS Integers, Sequences, FiniteSets, TLC

\* ---------------------------------------------------------------- bounds
MaxSessions == 3      \* runs of the initialization effect
MaxLog == 2           \* messages ever published on the channel
MaxSends == 2         \* handleSendMessage invocations that pass the guard

\* ------------------------------------------------------- program constants
HistoryLimit == 20
AssistantLabel == "Amana AI Assistant"

\* ------------------------------------------------------------ input sets
Names == {"A", "B"}                       \* display names a user can have
OtherConns == {101}                       \* connections of other participants
Texts == {<< >>, <<" ">>, <<"a">>, <<" ", "a", " ">>}   \* typed input
Replies == {<< >>, <<"r">>}               \* reply field of the AI proxy
OtherText == <<"x">>
OtherSender == "C"
MemberIds == {"A", "B", "C"}              \* client identifiers in presence events

Sessions == 1..MaxSessions
Sends == 1..MaxSends

VARIABLES
  \* React state and refs of the component
  username, messages, messageText, isLoading, isConnected, presenceMembers,
  ablyClientRef, channelRef,
  mounted,       \* the component is mounted
  effectInit,    \* session whose effect cleanup is registered (0: none)
  \* one entry per run of initializeAbly
  nInit, initPc, clientId, connState, subscribed, presSubscribed, cursor,
  tornDown, historyPage,
  \* the messaging backend
  log, presence,
  \* handleSendMessage invocations
  nSend, send, alerts, callTick,
  \* bookkeeping: presence events handled, last history page loaded
  lastEvent, lastOp, lastHistory,
  \* one invocation of the AI reply route (src/app/api/ai-reply/route.ts)
  aiPc, aiRequest, timeoutId, controller, response, rawResponseText,
  fetchCalls, aiResult,
  \* one invocation of the token route (src/app/api/ably-token/route.ts)
  tokPc, tokRequest, mintCalls, tokenRequest, tokResult, mintOverdue

compVars == <<username, messages, messageText, isLoading, isConnected,
              presenceMembers, ablyClientRef, channelRef, mounted, effectInit>>
sessVars == <<nInit, initPc, clientId, connState, subscribed, presSubscribed,
              cursor, tornDown, historyPage>>
backVars == <<log, presence>>
sendVars == <<nSend, send, alerts, callTick>>
harnessVars == <<lastEvent, lastOp, lastHistory>>
aiVars == <<aiPc, aiRequest, timeoutId, controller, response, rawResponseText,
            fetchCalls, aiResult>>
tokVars == <<tokPc, tokRequest, mintCalls, tokenRequest, tokResult, mintOverdue>>
routeVars == <<aiVars, tokVars>>
vars == <<compVars, sessVars, backVars, sendVars, harnessVars, routeVars>>

\* ---------------------------------------------------------------- helpers
Reverse(s) == [i \in 1..Len(s) |-> s[Len(s) + 1 - i]]

IsSpace(ch) == ch = " "

RECURSIVE TrimStart(_)
TrimStart(t) ==
  IF t # << >> /\ IsSpace(Head(t)) THEN TrimStart(Tail(t)) ELSE t

\* Trim that keeps the text as typed
TrimNone(t) == t

\* String.prototype.trim on a sequence of characters
Trim(t) == Reverse(TrimStart(Reverse(TrimStart(t))))

\* a React setter: dropped once the component is unmounted
SetState(cur, new) == IF mounted THEN new ELSE cur

\* ----------------------------------------------- presence enter / leave
HasClient(prev, cid) == \E i \in DOMAIN prev : prev[i].clientId = cid

\* OnEnter without the membership test
OnEnterAlwaysAppend(prev, member) ==
  Append(prev, [clientId |-> member.clientId, username |-> member.username])

\* OnEnter replacing the member's entry instead of keeping it
OnEnterReplace(prev, member) ==
  Append(SelectSeq(prev, LAMBDA m : m.clientId # member.clientId),
         [clientId |-> member.clientId, username |-> member.username])

\* setPresenceMembers updater of the 'enter' subscription
OnEnter(prev, member) ==
  IF ~HasClient(prev, member.clientId)
    THEN Append(prev, [clientId |-> member.clientId, username |-> member.username])
    ELSE prev

\* setPresenceMembers updater of the 'leave' subscription
OnLeave(prev, member) ==
  SelectSeq(prev, LAMBDA m : m.clientId # member.clientId)

RECURSIVE EnterTimes(_, _, _)
EnterTimes(prev, member, k) ==
  IF k = 0 THEN prev ELSE EnterTimes(OnEnter(prev, member), member, k - 1)

RECURSIVE LeaveTimes(_, _, _)
LeaveTimes(prev, member, k) ==
  IF k = 0 THEN prev ELSE LeaveTimes(OnLeave(prev, member), member, k - 1)

\* sessions of this tab whose presence handlers receive events
Listeners(connF, subF) ==
  {s \in Sessions : subF[s] /\ connF[s] = "connected"}

\* ------------------------------------------------------------- messages
\* Message built from an Ably message (subscription handler and history map)
ToMessage(m) == [id |-> m.id, text |-> m.text, sender |-> m.sender]

\* channel.publish accepted by the backend
Published(text, sender) ==
  Append(log, [id |-> Len(log) + 1, text |-> text, sender |-> sender])

\* ------------------------------------------------- route handler values
\* a JavaScript value: its type and, for a string or a number, its text
Undefined == [t |-> "undefined", s |-> << >>]
Null == [t |-> "null", s |-> << >>]
Str(x) == [t |-> "string", s |-> x]
Num(x) == [t |-> "number", s |-> x]
Obj == [t |-> "object", s |-> << >>]

\* the route handlers before any request
NoRequest == [json |-> "none", message |-> Undefined, enabled |-> TRUE]
NoUpstream == [status |-> 0, body |-> "none"]
NoResult == [status |-> 0, body |-> [reply |-> << >>]]
NoToken == [keyName |-> "", clientId |-> "", capability |-> [ch \in {} |-> {}]]
NoTokRequest == [key |-> "none", clientId |-> "none", channel |-> "none"]
NoTokResult == [status |-> 0, error |-> "", token |-> NoToken]

\* ------------------------------------------------------------------ Init
Init ==
  /\ username = ""
  /\ messages = << >>
  /\ messageText = << >>
  /\ isLoading = TRUE
  /\ isConnected = FALSE
  /\ presenceMembers = << >>
  /\ ablyClientRef = 0
  /\ channelRef = 0
  /\ mounted = TRUE
  /\ effectInit = 0
  /\ nInit = 0
  /\ initPc = [s \in Sessions |-> "idle"]
  /\ clientId = [s \in Sessions |-> ""]
  /\ connState = [s \in Sessions |-> "none"]
  /\ subscribed = [s \in Sessions |-> FALSE]
  /\ presSubscribed = [s \in Sessions |-> FALSE]
  /\ cursor = [s \in Sessions |-> 0]
  /\ tornDown = [s \in Sessions |-> FALSE]
  /\ historyPage = [s \in Sessions |-> << >>]
  /\ log = << >>
  /\ presence = {}
  /\ nSend = 0
  /\ send = [i \in Sends |-> [pc |-> "idle", input |-> << >>, userMessage |-> << >>,
                              sender |-> "", chan |-> 0, userPubs |-> 0,
                              aiCalls |-> << >>, aiPubs |-> << >>,
                              aiOk |-> FALSE, reply |-> << >>,
                              alerted |-> FALSE]]
  /\ alerts = 0
  /\ callTick = FALSE
  /\ lastEvent = [c \in MemberIds |-> "none"]
  /\ lastOp = [kind |-> "none", clientId |-> "", wasPresent |-> FALSE]
  /\ lastHistory = [session |-> 0, items |-> << >>]
  /\ aiPc = "idle"
  /\ aiRequest = NoRequest
  /\ timeoutId = "none"
  /\ controller = [aborted |-> FALSE]
  /\ response = NoUpstream
  /\ rawResponseText = << >>
  /\ fetchCalls = << >>
  /\ aiResult = NoResult
  /\ tokPc = "idle"
  /\ tokRequest = NoTokRequest
  /\ mintCalls = 0
  /\ tokenRequest = NoToken
  /\ tokResult = NoTokResult
  /\ mintOverdue = FALSE


\* ------------------------------------------------ backend presence set
PresenceOf(pres, c) == {e \in pres : e.conn = c}

PresenceWithout(pres, c) == pres \ PresenceOf(pres, c)

\* presence.enter / presence.update: one member per connection
PresenceUpsert(pres, c, cid, name) ==
  PresenceWithout(pres, c) \cup {[conn |-> c, clientId |-> cid, username |-> name]}

\* roster after the leave events caused by connection c dropping out of `pres'
AfterLeaveOf(prev, pres, c, connF) ==
  IF PresenceOf(pres, c) = {} THEN prev
  ELSE LET e == CHOOSE x \in PresenceOf(pres, c) : TRUE
       IN LeaveTimes(prev, e, Cardinality(Listeners(connF, presSubscribed)))

\* roster after the enter event of a member that was not in `pres' before
AfterEnterOf(prev, pres, c, cid, name, connF, subF) ==
  IF PresenceOf(pres, c) # {} THEN prev
  ELSE EnterTimes(prev, [clientId |-> cid, username |-> name],
                  Cardinality(Listeners(connF, subF)))

\* ------------------------------------------ effect cleanup (teardown)
CleanupConn ==
  IF ablyClientRef # 0 /\ connState[ablyClientRef] # "failed"
    THEN [connState EXCEPT ![ablyClientRef] = "closed"]
    ELSE connState

CleanupSubscribed ==
  IF channelRef # 0 THEN [subscribed EXCEPT ![channelRef] = FALSE] ELSE subscribed

CleanupPresence ==
  IF channelRef # 0 THEN PresenceWithout(presence, channelRef) ELSE presence

CleanupRoster ==
  IF channelRef # 0
    THEN AfterLeaveOf(presenceMembers, presence, channelRef, CleanupConn)
    ELSE presenceMembers

CleanupTornDown ==
  IF effectInit # 0 THEN [tornDown EXCEPT ![effectInit] = TRUE] ELSE tornDown

\* the body of the updatePresence effect, run against connection states connF
UpdatePresenceOk(connF, connected) ==
  /\ channelRef # 0
  /\ connected
  /\ connF[channelRef] = "connected"

\* ------------------------------------------------- username effects
\* first effect: a random guest name, then the initialization effect starts
GenerateUsername ==
  /\ mounted /\ username = "" /\ nInit < MaxSessions
  /\ \E u \in Names :
       /\ username' = u
       /\ nInit' = nInit + 1
       /\ initPc' = [initPc EXCEPT ![nInit + 1] = "token"]
       /\ clientId' = [clientId EXCEPT ![nInit + 1] = u]
       /\ effectInit' = nInit + 1
  /\ UNCHANGED <<messages, messageText, isLoading, isConnected, presenceMembers,
                 ablyClientRef, channelRef, mounted, connState, subscribed,
                 presSubscribed,
                 historyPage, cursor, tornDown>>
  /\ UNCHANGED <<backVars, sendVars, harnessVars>>
  /\ UNCHANGED routeVars

\* a name change that starts the initialization with the name as typed,
\* the empty one included
SetUsernameAsTyped(v) ==
  /\ mounted /\ ~isLoading /\ username # "" /\ v # username
  /\ nInit < MaxSessions
  /\ username' = v
  /\ clientId' = [clientId EXCEPT ![nInit + 1] = v]
  /\ presence' = CleanupPresence
  /\ nInit' = nInit + 1
  /\ initPc' = [initPc EXCEPT ![nInit + 1] = "token"]
  /\ effectInit' = nInit + 1
  /\ connState' = CleanupConn
  /\ subscribed' = CleanupSubscribed
  /\ presenceMembers' = CleanupRoster
  /\ tornDown' = CleanupTornDown
  /\ UNCHANGED <<messages, messageText, isLoading, isConnected, ablyClientRef,
                 channelRef, mounted, presSubscribed,
                 historyPage, cursor, log>>
  /\ UNCHANGED <<sendVars, harnessVars>>
  /\ UNCHANGED routeVars

\* the user edits the display name to v.  Cleanup of the previous effect
\* run, then (an emptied name is first replaced by a random guest name) a new
\* run of initializeAbly, then the updatePresence effect on the current ref.
SetUsername(v) ==
  /\ mounted /\ ~isLoading /\ username # "" /\ v # username
  /\ nInit < MaxSessions
  /\ \E u \in (IF v = "" THEN Names ELSE {v}) :
       /\ username' = u
       /\ clientId' = [clientId EXCEPT ![nInit + 1] = u]
       /\ presence' =
            IF UpdatePresenceOk(CleanupConn, isConnected)
              THEN PresenceUpsert(CleanupPresence, channelRef, clientId[channelRef], u)
              ELSE CleanupPresence
  /\ nInit' = nInit + 1
  /\ initPc' = [initPc EXCEPT ![nInit + 1] = "token"]
  /\ effectInit' = nInit + 1
  /\ connState' = CleanupConn
  /\ subscribed' = CleanupSubscribed
  /\ presenceMembers' = CleanupRoster
  /\ tornDown' = CleanupTornDown
  /\ UNCHANGED <<messages, messageText, isLoading, isConnected, ablyClientRef,
                 channelRef, mounted, presSubscribed,
                 historyPage, cursor, log>>
  /\ UNCHANGED <<sendVars, harnessVars>>
  /\ UNCHANGED routeVars

Unmount ==
  /\ mounted
  /\ mounted' = FALSE
  /\ effectInit' = 0
  /\ connState' = CleanupConn
  /\ subscribed' = CleanupSubscribed
  /\ presence' = CleanupPresence
  /\ tornDown' = CleanupTornDown
  /\ UNCHANGED <<username, messages, messageText, isLoading, isConnected,
                 presenceMembers, ablyClientRef, channelRef, nInit, initPc,
                 clientId, presSubscribed,
                 historyPage, cursor, log>>
  /\ UNCHANGED <<sendVars, harnessVars>>
  /\ UNCHANGED routeVars

\* ------------------------------------------------ initializeAbly steps
\* fetch('/api/ably-token') succeeded: the client is created, both refs are
\* set, the connection listeners and the message listener are registered
TokenOk(s) ==
  /\ initPc[s] = "token"
  /\ initPc' = [initPc EXCEPT ![s] = "attach"]
  /\ connState' = [connState EXCEPT ![s] = "connecting"]
  /\ ablyClientRef' = s
  /\ channelRef' = s
  /\ subscribed' = [subscribed EXCEPT ![s] = TRUE]
  /\ UNCHANGED <<username, messages, messageText, isLoading, isConnected,
                 presenceMembers, mounted, effectInit, nInit, clientId,
                 presSubscribed,
                 historyPage, cursor, tornDown>>
  /\ UNCHANGED <<backVars, sendVars, harnessVars>>
  /\ UNCHANGED routeVars

\* a catch block that logs and leaves the loading state on
InitCatchKeepsLoading(s) ==
  /\ initPc' = [initPc EXCEPT ![s] = "failed"]
  /\ isLoading' = isLoading

\* the catch block of initializeAbly
InitCatch(s) ==
  /\ initPc' = [initPc EXCEPT ![s] = "failed"]
  /\ isLoading' = SetState(isLoading, FALSE)

\* the token request failed (non-ok response or rejected fetch)
TokenFail(s) ==
  /\ initPc[s] = "token"
  /\ InitCatch(s)
  /\ UNCHANGED <<username, messages, messageText, isConnected, presenceMembers,
                 ablyClientRef, channelRef, mounted, effectInit, nInit, clientId,
                 connState, subscribed, presSubscribed,
                 historyPage, cursor, tornDown>>
  /\ UNCHANGED <<backVars, sendVars, harnessVars>>
  /\ UNCHANGED routeVars

\* await channel.subscribe resolves: the channel is attached
AttachOk(s) ==
  /\ initPc[s] = "attach" /\ connState[s] = "connected"
  /\ initPc' = [initPc EXCEPT ![s] = "get"]
  /\ cursor' = [cursor EXCEPT ![s] = Len(log) + 1]
  /\ UNCHANGED <<compVars, nInit, clientId, connState, subscribed,
                 presSubscribed,
                 historyPage, tornDown>>
  /\ UNCHANGED <<backVars, sendVars, harnessVars>>
  /\ UNCHANGED routeVars

\* presence.get resolves: the roster is replaced by the snapshot as returned
\* (one member per connection), then the enter/leave handlers are registered
Snapshot(pres) ==
  LET conns == {e.conn : e \in pres}
      RECURSIVE Build(_)
      Build(cs) ==
        IF cs = {} THEN << >>
        ELSE LET c == CHOOSE x \in cs : \A y \in cs : x <= y
                 e == CHOOSE x \in PresenceOf(pres, c) : TRUE
             IN <<[clientId |-> e.clientId, username |-> e.username]>>
                  \o Build(cs \ {c})
  IN Build(conns)

PresenceGetOk(s) ==
  /\ initPc[s] = "get" /\ connState[s] = "connected"
  /\ initPc' = [initPc EXCEPT ![s] = "enter"]
  /\ presenceMembers' = SetState(presenceMembers, Snapshot(presence))
  /\ presSubscribed' = [presSubscribed EXCEPT ![s] = TRUE]
  /\ UNCHANGED <<username, messages, messageText, isLoading, isConnected,
                 ablyClientRef, channelRef, mounted, effectInit, nInit, clientId,
                 connState, subscribed, cursor, tornDown, historyPage>>
  /\ UNCHANGED <<backVars, sendVars, harnessVars>>
  /\ UNCHANGED routeVars

\* presence.enter({ username }) resolves; username is the closure's value,
\* the same string as the session's clientId
PresenceEnterOk(s) ==
  /\ initPc[s] = "enter" /\ connState[s] = "connected"
  /\ initPc' = [initPc EXCEPT ![s] = "history"]
  /\ presence' = PresenceUpsert(presence, s, clientId[s], clientId[s])
  /\ presenceMembers' =
       SetState(presenceMembers,
                AfterEnterOf(presenceMembers, presence, s, clientId[s],
                             clientId[s], connState, presSubscribed))
  /\ UNCHANGED <<username, messages, messageText, isLoading, isConnected,
                 ablyClientRef, channelRef, mounted, effectInit, nInit, clientId,
                 connState, subscribed, presSubscribed,
                 historyPage, cursor, tornDown, log>>
  /\ UNCHANGED <<sendVars, harnessVars>>
  /\ UNCHANGED routeVars

\* an awaited channel/presence call of initializeAbly rejects
InitStepFail(s) ==
  /\ initPc[s] \in {"attach", "get", "enter"}
  /\ InitCatch(s)
  /\ UNCHANGED <<username, messages, messageText, isConnected, presenceMembers,
                 ablyClientRef, channelRef, mounted, effectInit, nInit, clientId,
                 connState, subscribed, presSubscribed,
                 historyPage, cursor, tornDown>>
  /\ UNCHANGED <<backVars, sendVars, harnessVars>>
  /\ UNCHANGED routeVars

\* channel.history({ limit: 20 }): newest first
HistoryPage(l) ==
  LET n == IF Len(l) < HistoryLimit THEN Len(l) ELSE HistoryLimit
  IN [i \in 1..n |-> l[Len(l) + 1 - i]]

\* the history items mapped in the order returned
HistoryMessagesNoReverse(items) ==
  [i \in 1..Len(items) |-> ToMessage(items[i])]

\* .reverse().map(...) of the history items
HistoryMessages(items) ==
  LET r == Reverse(items) IN [i \in 1..Len(r) |-> ToMessage(r[i])]

\* the backend answers the history request from the log as it is then
HistoryAnswered(s) ==
  /\ initPc[s] = "history"
  /\ initPc' = [initPc EXCEPT ![s] = "historyReply"]
  /\ historyPage' = [historyPage EXCEPT ![s] = HistoryPage(log)]
  /\ UNCHANGED <<compVars, nInit, clientId, connState, subscribed,
                 presSubscribed, cursor, tornDown>>
  /\ UNCHANGED <<backVars, sendVars, harnessVars>>
  /\ UNCHANGED routeVars

\* await channel.history resolved with the page: a non-empty page replaces
\* the message list
HistoryOk(s) ==
  /\ initPc[s] = "historyReply"
  /\ initPc' = [initPc EXCEPT ![s] = "done"]
  /\ messages' = IF Len(historyPage[s]) > 0
                   THEN SetState(messages, HistoryMessages(historyPage[s]))
                   ELSE messages
  /\ lastHistory' = IF Len(historyPage[s]) > 0
                      THEN [session |-> s, items |-> historyPage[s]]
                      ELSE lastHistory
  /\ historyPage' = [historyPage EXCEPT ![s] = << >>]
  /\ UNCHANGED <<username, messageText, isLoading, isConnected, presenceMembers,
                 ablyClientRef, channelRef, mounted, effectInit, nInit, clientId,
                 connState, subscribed, presSubscribed, cursor, tornDown>>
  /\ UNCHANGED <<backVars, sendVars, lastEvent, lastOp>>
  /\ UNCHANGED routeVars

\* a history failure handled by the catch block of initializeAbly
HistoryFailAborts(s) ==
  /\ initPc[s] = "history"
  /\ InitCatch(s)
  /\ messages' = SetState(messages, << >>)
  /\ UNCHANGED <<username, messageText, isConnected, presenceMembers,
                 ablyClientRef, channelRef, mounted, effectInit, nInit, clientId,
                 connState, subscribed, presSubscribed,
                 historyPage, cursor, tornDown>>
  /\ UNCHANGED <<backVars, sendVars, harnessVars>>
  /\ UNCHANGED routeVars

\* the backend answers the history request with an error: the inner catch
\* logs it and initialization ends
HistoryFail(s) ==
  /\ initPc[s] = "history"
  /\ initPc' = [initPc EXCEPT ![s] = "done"]
  /\ UNCHANGED <<compVars, nInit, clientId, connState, subscribed,
                 presSubscribed, cursor, tornDown, historyPage>>
  /\ UNCHANGED <<backVars, sendVars, harnessVars>>
  /\ UNCHANGED routeVars

\* the handler putting the new message in front of the list
DeliverMessagePrepend(s) ==
  /\ subscribed[s] /\ connState[s] = "connected"
  /\ cursor[s] > 0 /\ cursor[s] <= Len(log)
  /\ messages' = SetState(messages, <<ToMessage(log[cursor[s]])>> \o messages)
  /\ cursor' = [cursor EXCEPT ![s] = cursor[s] + 1]
  /\ UNCHANGED <<username, messageText, isLoading, isConnected, presenceMembers,
                 ablyClientRef, channelRef, mounted, effectInit, nInit, initPc,
                 clientId, connState, subscribed, presSubscribed,
                 historyPage, tornDown>>
  /\ UNCHANGED <<backVars, sendVars, harnessVars>>
  /\ UNCHANGED routeVars

\* the 'message' subscription handler, once per delivered event
DeliverMessage(s) ==
  /\ subscribed[s] /\ connState[s] = "connected"
  /\ cursor[s] > 0 /\ cursor[s] <= Len(log)
  /\ messages' = SetState(messages, Append(messages, ToMessage(log[cursor[s]])))
  /\ cursor' = [cursor EXCEPT ![s] = cursor[s] + 1]
  /\ UNCHANGED <<username, messageText, isLoading, isConnected, presenceMembers,
                 ablyClientRef, channelRef, mounted, effectInit, nInit, initPc,
                 clientId, connState, subscribed, presSubscribed,
                 historyPage, tornDown>>
  /\ UNCHANGED <<backVars, sendVars, harnessVars>>
  /\ UNCHANGED routeVars


\* ------------------------------------------------- connection listeners
\* client.connection.on('connected'); when isConnected turns true the
\* updatePresence effect runs: presence.update({ username }) on channelRef
ConnConnected(s) ==
  /\ connState[s] \in {"connecting", "disconnected"}
  /\ connState' = [connState EXCEPT ![s] = "connected"]
  /\ isConnected' = SetState(isConnected, TRUE)
  /\ isLoading' = SetState(isLoading, FALSE)
  /\ LET runs == mounted /\ ~isConnected /\ username # ""
                 /\ UpdatePresenceOk(connState', TRUE)
     IN /\ presence' =
             IF runs THEN PresenceUpsert(presence, channelRef,
                                         clientId[channelRef], username)
                     ELSE presence
        /\ presenceMembers' =
             IF runs THEN AfterEnterOf(presenceMembers, presence, channelRef,
                                       clientId[channelRef], username,
                                       connState', presSubscribed)
                     ELSE presenceMembers
  /\ UNCHANGED <<username, messages, messageText, ablyClientRef, channelRef,
                 mounted, effectInit, nInit, initPc, clientId, subscribed,
                 presSubscribed,
                 historyPage, cursor, tornDown, log>>
  /\ UNCHANGED <<sendVars, harnessVars>>
  /\ UNCHANGED routeVars

\* a 'disconnected' listener that leaves the status as it is
ConnDisconnectedKeepsStatus(s) ==
  /\ connState[s] \in {"connecting", "connected"}
  /\ connState' = [connState EXCEPT ![s] = "disconnected"]
  /\ UNCHANGED <<compVars, nInit, initPc, clientId, subscribed, presSubscribed,
                 historyPage, cursor, tornDown>>
  /\ UNCHANGED <<backVars, sendVars, harnessVars>>
  /\ UNCHANGED routeVars

\* client.connection.on('disconnected'): the connection dropped, or the
\* first attempt to connect did not get through
ConnDisconnected(s) ==
  /\ connState[s] \in {"connecting", "connected"}
  /\ connState' = [connState EXCEPT ![s] = "disconnected"]
  /\ isConnected' = SetState(isConnected, FALSE)
  /\ UNCHANGED <<username, messages, messageText, isLoading, presenceMembers,
                 ablyClientRef, channelRef, mounted, effectInit, nInit, initPc,
                 clientId, subscribed, presSubscribed,
                 historyPage, cursor, tornDown>>
  /\ UNCHANGED <<backVars, sendVars, harnessVars>>
  /\ UNCHANGED routeVars

\* client.connection.on('failed'); the backend drops the connection's member
ConnFailed(s) ==
  /\ connState[s] \in {"connecting", "connected", "disconnected"}
  /\ connState' = [connState EXCEPT ![s] = "failed"]
  /\ isConnected' = SetState(isConnected, FALSE)
  /\ isLoading' = SetState(isLoading, FALSE)
  /\ presence' = PresenceWithout(presence, s)
  /\ presenceMembers' =
       SetState(presenceMembers,
                AfterLeaveOf(presenceMembers, presence, s, connState'))
  /\ UNCHANGED <<username, messages, messageText, ablyClientRef, channelRef,
                 mounted, effectInit, nInit, initPc, clientId, subscribed,
                 presSubscribed,
                 historyPage, cursor, tornDown, log>>
  /\ UNCHANGED <<sendVars, harnessVars>>
  /\ UNCHANGED routeVars

\* ------------------------------------------------- other participants
OtherPublish ==
  /\ Len(log) < MaxLog
  /\ log' = Published(OtherText, OtherSender)
  /\ UNCHANGED <<compVars, sessVars, presence, sendVars, harnessVars>>
  /\ UNCHANGED routeVars

OtherEnter(o, c) ==
  /\ PresenceOf(presence, o) = {}
  /\ presence' = PresenceUpsert(presence, o, c, c)
  /\ presenceMembers' =
       SetState(presenceMembers,
                AfterEnterOf(presenceMembers, presence, o, c, c,
                             connState, presSubscribed))
  /\ UNCHANGED <<username, messages, messageText, isLoading, isConnected,
                 ablyClientRef, channelRef, mounted, effectInit, log>>
  /\ UNCHANGED <<sessVars, sendVars, harnessVars>>
  /\ UNCHANGED routeVars

OtherLeave(o) ==
  /\ PresenceOf(presence, o) # {}
  /\ presence' = PresenceWithout(presence, o)
  /\ presenceMembers' =
       SetState(presenceMembers,
                AfterLeaveOf(presenceMembers, presence, o, connState))
  /\ UNCHANGED <<username, messages, messageText, isLoading, isConnected,
                 ablyClientRef, channelRef, mounted, effectInit, log>>
  /\ UNCHANGED <<sessVars, sendVars, harnessVars>>
  /\ UNCHANGED routeVars


\* ------------------------------------------------------ handleSendMessage
\* the guard without the isConnected test
PassesGuardNoConnected(text, chan, connected) ==
  /\ Trim(text) # << >>
  /\ chan # 0

\* the guard of line 189, negated: the call goes on
PassesGuard(text, chan, connected) ==
  /\ Trim(text) # << >>
  /\ chan # 0
  /\ connected

SetMessageText(t) ==
  /\ mounted /\ ~isLoading /\ t # messageText
  /\ messageText' = t
  /\ UNCHANGED <<username, messages, isLoading, isConnected, presenceMembers,
                 ablyClientRef, channelRef, mounted, effectInit>>
  /\ UNCHANGED <<sessVars, backVars, sendVars, harnessVars>>
  /\ UNCHANGED routeVars

\* one invocation: early return, or clear the input and issue the publish
HandleSendMessage ==
  /\ mounted /\ ~isLoading /\ username # ""
  /\ callTick' = ~callTick
  /\ IF PassesGuard(messageText, channelRef, isConnected)
       THEN /\ nSend < MaxSends
            /\ nSend' = nSend + 1
            /\ send' = [send EXCEPT ![nSend + 1] =
                 [@ EXCEPT !.pc = "pubUser", !.input = messageText,
                           !.userMessage = Trim(messageText),
                           !.sender = username, !.chan = channelRef]]
            /\ messageText' = << >>
       ELSE UNCHANGED <<nSend, send, messageText>>
  /\ UNCHANGED <<username, messages, isLoading, isConnected, presenceMembers,
                 ablyClientRef, channelRef, mounted, effectInit, alerts>>
  /\ UNCHANGED <<sessVars, backVars, harnessVars>>
  /\ UNCHANGED routeVars

\* step 1 resolved: the user message is on the channel; step 2 is issued
UserPublishOk(i) ==
  /\ send[i].pc = "pubUser"
  /\ connState[send[i].chan] = "connected"
  /\ Len(log) < MaxLog
  /\ log' = Published(send[i].userMessage, send[i].sender)
  /\ send' = [send EXCEPT ![i] =
       [@ EXCEPT !.pc = "ai", !.userPubs = @ + 1,
                 !.aiCalls = Append(@, send[i].userMessage)]]
  /\ UNCHANGED <<compVars, sessVars, presence, nSend, alerts, callTick, harnessVars>>
  /\ UNCHANGED routeVars

\* the outer catch without setMessageText(userMessage)
UserPublishFailNoRestore(i) ==
  /\ send[i].pc = "pubUser"
  /\ send' = [send EXCEPT ![i] = [@ EXCEPT !.pc = "done", !.alerted = TRUE]]
  /\ alerts' = alerts + 1
  /\ UNCHANGED <<compVars, nSend, callTick>>
  /\ UNCHANGED <<sessVars, backVars, harnessVars>>
  /\ UNCHANGED routeVars

\* step 1 rejected: the outer catch
UserPublishFail(i) ==
  /\ send[i].pc = "pubUser"
  /\ send' = [send EXCEPT ![i] = [@ EXCEPT !.pc = "done", !.alerted = TRUE]]
  /\ alerts' = alerts + 1
  /\ messageText' = SetState(messageText, send[i].userMessage)
  /\ UNCHANGED <<username, messages, isLoading, isConnected, presenceMembers,
                 ablyClientRef, channelRef, mounted, effectInit, nSend, callTick>>
  /\ UNCHANGED <<sessVars, backVars, harnessVars>>
  /\ UNCHANGED routeVars

\* the AI response handling with the reply published whatever the status
AiResponseAnyStatus(i, ok, reply) ==
  /\ send[i].pc = "ai"
  /\ send' = [send EXCEPT ![i] =
       IF reply # << >> /\ channelRef # 0
         THEN [@ EXCEPT !.pc = "pubAI", !.chan = channelRef,
                        !.aiOk = ok, !.reply = reply]
         ELSE [@ EXCEPT !.pc = "done", !.aiOk = ok, !.reply = reply]]
  /\ UNCHANGED <<compVars, sessVars, backVars, nSend, alerts, callTick, harnessVars>>
  /\ UNCHANGED routeVars

\* the AI proxy answered with aiResponse.ok = ok and the field reply; step
\* 3 is issued on the then-current channelRef
AiResponse(i, ok, reply) ==
  /\ send[i].pc = "ai"
  /\ send' = [send EXCEPT ![i] =
       IF ok /\ reply # << >> /\ channelRef # 0
         THEN [@ EXCEPT !.pc = "pubAI", !.chan = channelRef,
                        !.aiOk = ok, !.reply = reply]
         ELSE [@ EXCEPT !.pc = "done", !.aiOk = ok, !.reply = reply]]
  /\ UNCHANGED <<compVars, sessVars, backVars, nSend, alerts, callTick, harnessVars>>
  /\ UNCHANGED routeVars

\* the inner catch treated like the outer one: notice and input restored
AiThrowAlerts(i) ==
  /\ send[i].pc = "ai"
  /\ send' = [send EXCEPT ![i] = [@ EXCEPT !.pc = "done", !.alerted = TRUE]]
  /\ alerts' = alerts + 1
  /\ messageText' = SetState(messageText, send[i].userMessage)
  /\ UNCHANGED <<username, messages, isLoading, isConnected, presenceMembers,
                 ablyClientRef, channelRef, mounted, effectInit, nSend, callTick>>
  /\ UNCHANGED <<sessVars, backVars, harnessVars>>
  /\ UNCHANGED routeVars

\* the fetch of the AI proxy (or reading its body) threw: the inner catch
AiThrow(i) ==
  /\ send[i].pc = "ai"
  /\ send' = [send EXCEPT ![i] = [@ EXCEPT !.pc = "done"]]
  /\ UNCHANGED <<compVars, sessVars, backVars, nSend, alerts, callTick, harnessVars>>
  /\ UNCHANGED routeVars

AiPublishOk(i) ==
  /\ send[i].pc = "pubAI"
  /\ connState[send[i].chan] = "connected"
  /\ Len(log) < MaxLog
  /\ log' = Published(send[i].reply, AssistantLabel)
  /\ send' = [send EXCEPT ![i] =
       [@ EXCEPT !.pc = "done", !.aiPubs = Append(@, send[i].reply)]]
  /\ UNCHANGED <<compVars, sessVars, presence, nSend, alerts, callTick, harnessVars>>
  /\ UNCHANGED routeVars

\* step 3 rejected: the inner catch
AiPublishFail(i) ==
  /\ send[i].pc = "pubAI"
  /\ send' = [send EXCEPT ![i] = [@ EXCEPT !.pc = "done"]]
  /\ UNCHANGED <<compVars, sessVars, backVars, nSend, alerts, callTick, harnessVars>>
  /\ UNCHANGED routeVars

\* ------------------------------------------------------------------ Next
\* session lifecycle under display-name changes: every run of the
\* initialization effect, its connection and its own presence entry.
\* A connection here connects or fails; drops and reconnections of a
\* connection are covered by SpecSession and SpecSend
Next ==
  \/ GenerateUsername
  \/ \E v \in Names \cup {""} : SetUsername(v)
  \/ Unmount
  \/ \E s \in Sessions : TokenOk(s)
  \/ \E s \in Sessions : TokenFail(s)
  \/ \E s \in Sessions : AttachOk(s)
  \/ \E s \in Sessions : PresenceGetOk(s)
  \/ \E s \in Sessions : PresenceEnterOk(s)
  \/ \E s \in Sessions : InitStepFail(s)
  \/ \E s \in Sessions : HistoryAnswered(s)
  \/ \E s \in Sessions : HistoryOk(s)
  \/ \E s \in Sessions : HistoryFail(s)
  \/ \E s \in Sessions : ConnConnected(s)
  \/ \E s \in Sessions : ConnFailed(s)

Spec == Init /\ [][Next]_vars

\* one session with the other participants: message events, history load,
\* presence snapshot and presence events
NextSession ==
  \/ GenerateUsername
  \/ Unmount
  \/ \E s \in Sessions : TokenOk(s)
  \/ \E s \in Sessions : TokenFail(s)
  \/ \E s \in Sessions : AttachOk(s)
  \/ \E s \in Sessions : PresenceGetOk(s)
  \/ \E s \in Sessions : PresenceEnterOk(s)
  \/ \E s \in Sessions : InitStepFail(s)
  \/ \E s \in Sessions : HistoryAnswered(s)
  \/ \E s \in Sessions : HistoryOk(s)
  \/ \E s \in Sessions : HistoryFail(s)
  \/ \E s \in Sessions : DeliverMessage(s)
  \/ \E s \in Sessions : ConnConnected(s)
  \/ \E s \in Sessions : ConnDisconnected(s)
  \/ \E s \in Sessions : ConnFailed(s)
  \/ OtherPublish
  \/ \E o \in OtherConns, c \in Names : OtherEnter(o, c)
  \/ \E o \in OtherConns : OtherLeave(o)

SpecSession == Init /\ [][NextSession]_vars

\* handleSendMessage over the connection lifecycle of one session
NextSend ==
  \/ GenerateUsername
  \/ Unmount
  \/ \E s \in Sessions : TokenOk(s)
  \/ \E s \in Sessions : TokenFail(s)
  \/ \E s \in Sessions : ConnConnected(s)
  \/ \E s \in Sessions : ConnDisconnected(s)
  \/ \E s \in Sessions : ConnFailed(s)
  \/ \E t \in Texts : SetMessageText(t)
  \/ HandleSendMessage
  \/ \E i \in Sends : UserPublishOk(i)
  \/ \E i \in Sends : UserPublishFail(i)
  \/ \E i \in Sends, ok \in BOOLEAN, r \in Replies : AiResponse(i, ok, r)
  \/ \E i \in Sends : AiThrow(i)
  \/ \E i \in Sends : AiPublishOk(i)
  \/ \E i \in Sends : AiPublishFail(i)

SpecSend == Init /\ [][NextSend]_vars


\* ------------------------------------- the presence handlers on their own
\* presence.subscribe('enter') handler run on one event
HandlePresenceEnter(c, n) ==
  /\ presenceMembers' = OnEnter(presenceMembers, [clientId |-> c, username |-> n])
  /\ lastEvent' = [lastEvent EXCEPT ![c] = "enter"]
  /\ lastOp' = [kind |-> "enter", clientId |-> c,
                wasPresent |-> HasClient(presenceMembers, c)]
  /\ UNCHANGED <<username, messages, messageText, isLoading, isConnected,
                 ablyClientRef, channelRef, mounted, effectInit>>
  /\ UNCHANGED <<sessVars, backVars, sendVars, lastHistory>>
  /\ UNCHANGED routeVars

\* presence.subscribe('leave') handler run on one event
HandlePresenceLeave(c, n) ==
  /\ presenceMembers' = OnLeave(presenceMembers, [clientId |-> c, username |-> n])
  /\ lastEvent' = [lastEvent EXCEPT ![c] = "leave"]
  /\ lastOp' = [kind |-> "leave", clientId |-> c,
                wasPresent |-> HasClient(presenceMembers, c)]
  /\ UNCHANGED <<username, messages, messageText, isLoading, isConnected,
                 ablyClientRef, channelRef, mounted, effectInit>>
  /\ UNCHANGED <<sessVars, backVars, sendVars, lastHistory>>
  /\ UNCHANGED routeVars

NextRoster ==
  \/ \E c \in MemberIds, n \in Names : HandlePresenceEnter(c, n)
  \/ \E c \in MemberIds, n \in Names : HandlePresenceLeave(c, n)

\* every finite sequence of enter/leave events, from the empty roster
SpecRoster == Init /\ [][NextRoster]_vars

\* number of roster entries of client identifier c
EntriesOf(r, c) == Cardinality({i \in DOMAIN r : r[i].clientId = c})

\* C1: after any sequence of enter/leave events from the empty roster, the
\* roster has exactly one entry for each client identifier whose most recent
\* event was 'enter' and none for any other identifier (most recent event
\* 'leave', or never seen).
C1_RosterMatchesLastEvent ==
  \A c \in MemberIds :
    EntriesOf(presenceMembers, c) = (IF lastEvent[c] = "enter" THEN 1 ELSE 0)

\* C1 witness: one identifier last entered (after a repeated enter), another
\* last left after having been present
C1_Witness ==
  \E c, d \in MemberIds :
    /\ c # d
    /\ lastEvent[c] = "enter" /\ lastEvent[d] = "leave"
    /\ lastOp.kind = "leave" /\ lastOp.clientId = d /\ lastOp.wasPresent
    /\ EntriesOf(presenceMembers, c) = 1

\* C6: for every roster reached and every member, an 'enter' for an identifier
\* already in the roster and a 'leave' for an identifier not in the roster
\* leave the roster unchanged, and applying either handler twice equals
\* applying it once.
C6_EnterLeaveIdempotent ==
  \A c \in MemberIds, n \in Names :
    LET m == [clientId |-> c, username |-> n]
        r == presenceMembers
    IN /\ EntriesOf(r, c) > 0 => OnEnter(r, m) = r
       /\ EntriesOf(r, c) = 0 => OnLeave(r, m) = r
       /\ OnEnter(OnEnter(r, m), m) = OnEnter(r, m)
       /\ OnLeave(OnLeave(r, m), m) = OnLeave(r, m)

\* C6 witness: an 'enter' was processed for an identifier already present,
\* with other members in the roster
C6_Witness ==
  /\ lastOp.kind = "enter" /\ lastOp.wasPresent
  /\ Len(presenceMembers) >= 2


\* ------------------------------------------------ handleSendMessage claims
Spaces(n) == [i \in 1..n |-> " "]

\* t is x without its leading and trailing blanks
IsTrimOf(t, x) ==
  /\ t = << >> \/ (t[1] # " " /\ t[Len(t)] # " ")
  /\ \E a, b \in 0..Len(x) : x = Spaces(a) \o t \o Spaces(b)

\* only blanks (or nothing)
Blank(x) == \A k \in DOMAIN x : x[k] = " "

\* the log holds the user message of send i
UserMessageInLog(i) ==
  \E k \in DOMAIN log :
    log[k].text = send[i].aiCalls[1] /\ log[k].sender = send[i].sender

\* C2: each SendMessage that passes the guard publishes at most one user
\* message and calls the AI proxy at most once; the proxy is called only when
\* exactly one user message of that send has been published (it is on the
\* channel), and its argument is the typed text without leading and trailing
\* blanks, non-empty, the text that was published.
C2_PublishThenAiWithTrimmedText ==
  \A i \in Sends :
    /\ send[i].userPubs <= 1
    /\ Len(send[i].aiCalls) <= 1
    /\ send[i].pc = "pubUser" => send[i].aiCalls = << >> /\ send[i].userPubs = 0
    /\ send[i].aiCalls # << >> =>
         /\ send[i].userPubs = 1
         /\ send[i].aiCalls[1] # << >>
         /\ IsTrimOf(send[i].aiCalls[1], send[i].input)
         /\ UserMessageInLog(i)

\* C2 witness: a send of text typed with surrounding blanks has published its
\* user message and the AI proxy has answered
C2_Witness ==
  \E i \in Sends :
    /\ send[i].input = <<" ", "a", " ">>
    /\ send[i].aiCalls = <<(<<"a">>)>>
    /\ send[i].pc \in {"pubAI", "done"}

\* C8: an invocation of handleSendMessage with blank text, without a channel
\* handle or while not connected publishes nothing, starts no send (so no AI
\* call), shows no notice and leaves the input text as it is.
C8_GuardedSendIsNoop ==
  [][(callTick' # callTick
        /\ (Blank(messageText) \/ channelRef = 0 \/ ~isConnected))
      => /\ log' = log
         /\ send' = send
         /\ nSend' = nSend
         /\ alerts' = alerts
         /\ messageText' = messageText]_vars

\* C8 witness: handleSendMessage has been invoked, no send was ever started,
\* and the text is non-blank with a channel handle but no connection
C8_Witness ==
  /\ callTick /\ nSend = 0
  /\ ~Blank(messageText) /\ channelRef # 0 /\ ~isConnected

\* C9: when the publish of the user message is rejected, one blocking notice
\* is raised, the input (while the component is mounted) is set back to the
\* text that was being sent, and that send never calls the AI proxy nor
\* publishes an AI message.
C9_PublishFailureRestoresText ==
  [][\A i \in Sends :
       /\ (send[i].pc = "pubUser" /\ send'[i].pc = "done")
            => /\ alerts' = alerts + 1
               /\ send'[i].alerted
               /\ mounted => messageText' = send[i].userMessage
               /\ IsTrimOf(send[i].userMessage, send[i].input)
               /\ log' = log
       /\ send'[i].alerted
            => /\ send'[i].pc = "done"
               /\ send'[i].aiCalls = << >>
               /\ send'[i].aiPubs = << >>
               /\ send'[i].userPubs = 0]_vars

\* C9 witness: a send typed with surrounding blanks failed at its first
\* publish and the input holds the text again
C9_Witness ==
  \E i \in Sends :
    /\ send[i].alerted /\ alerts = 1
    /\ send[i].input = <<" ", "a", " ">>
    /\ messageText = <<"a">>
    /\ mounted


\* ------------------------------------------------------ lifecycle claims
\* initialization of every started session has run to its end
Quiescent == \A s \in Sessions : initPc[s] \in {"idle", "done", "failed"}

\* presence members of this tab's own connections
OwnPresence == {e \in presence : e.conn \in Sessions}

\* C3: once a session has been torn down and its initialization has run to
\* completion, the connection that initialization opened is closed, its
\* message subscription is removed and it has no presence entry.
C3_TeardownReleasesSession ==
  \A s \in Sessions :
    (tornDown[s] /\ initPc[s] = "done")
      => /\ connState[s] \in {"none", "closed", "failed"}
         /\ ~subscribed[s]
         /\ PresenceOf(presence, s) = {}

\* C4: the message list never holds two entries with the same identifier.
C4_NoDuplicateMessageIds ==
  \A i, j \in DOMAIN messages :
    i # j => messages[i].id # messages[j].id

\* C5: the presence roster never holds two entries with the same client
\* identifier.
C5_NoDuplicateClientIds ==
  \A i, j \in DOMAIN presenceMembers :
    i # j => presenceMembers[i].clientId # presenceMembers[j].clientId

\* C7: a history load that returns a non-empty page, newest first, leaves the
\* message list equal to the page in reverse: oldest first, same entries.
C7_HistoryInChronologicalOrder ==
  [][(/\ \E s \in Sessions : /\ initPc[s] = "historyReply" /\ initPc'[s] = "done"
                             /\ lastHistory'.session = s
      /\ mounted)
      => LET items == lastHistory'.items
             n == Len(items)
         IN /\ \A k \in 1..(n - 1) : items[k].id > items[k + 1].id
            /\ Len(messages') = n
            /\ \A k \in 1..n :
                 /\ messages'[k].id = items[n + 1 - k].id
                 /\ messages'[k].text = items[n + 1 - k].text
                 /\ messages'[k].sender = items[n + 1 - k].sender
            /\ \A k \in 1..(n - 1) : messages'[k].id < messages'[k + 1].id]_vars

\* C7 witness: a page of two items was loaded and the list shows them oldest
\* first
C7_Witness ==
  /\ mounted
  /\ Len(lastHistory.items) >= 2
  /\ lastHistory.items[1].id = 2
  /\ Len(messages) = 2 /\ messages[1].id = 1 /\ messages[2].id = 2

\* C10: once every started initialization has run to its end, this tab has
\* at most one presence entry and every entry of this tab carries the
\* current display name.
C10_PresenceAdvertisesCurrentName ==
  (mounted /\ Quiescent)
    => /\ Cardinality(OwnPresence) <= 1
       /\ \A e \in OwnPresence : e.username = username


\* ======================================================================
\* The AI reply route: POST of src/app/api/ai-reply/route.ts
\* ======================================================================
\* Texts are sequences of tokens; the token " " is white space.

\* the replies the route builds itself
InvalidRequestText == <<"Invalid request">>
UnavailableText ==
  <<"AI Assistant is currently unavailable. Please try again later.">>
AuthFailedText ==
  <<"AI service authentication failed. Please check API configuration.">>
RateLimitedText == <<"AI service is rate-limited. Please try again in a moment.">>
ServerIssueText == <<"AI service is experiencing issues. Please try again later.">>
EmptyResponseText ==
  <<"AI Assistant returned an empty response. Please try again.">>
TimeoutText == <<"Sorry, the request took too long. Please try again.">>
UnreachableText ==
  <<"AI service is unreachable. Please check your network connection or API configuration.">>

\* request bodies: not JSON, the JSON value null, or a JSON object whose
\* message member is absent or one of these values
RequestMessages ==
  {Undefined, Null, Num(<<"0">>), Num(<<"7">>), Obj, Str(<< >>), Str(<<" ">>),
   Str(<<"hi">>), Str(<<" ", "hi", " ">>)}
Requests ==
  {[json |-> "invalid", message |-> Undefined],
   [json |-> "null", message |-> Undefined]}
    \cup {[json |-> "object", message |-> m] : m \in RequestMessages}

\* upstream status codes fetch can resolve with
UpstreamStatuses == {200, 204, 301, 400, 401, 403, 404, 429, 500, 503}

\* JavaScript truthiness
Truthy(v) ==
  CASE v.t = "string" -> v.s # << >>
    [] v.t = "number" -> v.s # <<"0">>
    [] v.t = "object" -> TRUE
    [] OTHER -> FALSE

\* !message || typeof message !== 'string' || !message.trim()
InvalidMessage(m) == ~Truthy(m) \/ m.t # "string" \/ Trim(m.s) = << >>

\* a canned reply that does not quote the message
getMockResponseNoQuote(k, message) ==
  CASE k = 1 -> <<"I understand. How can I help you further?">>
    [] k = 2 -> <<"Thanks for your message. I'm here to assist you!">>
    [] OTHER -> <<"Let me help you with that.">>

\* getMockResponse with Math.random() choosing template k
getMockResponse(k, message) ==
  CASE k = 1 -> <<"I understand you said: \"">> \o message
                  \o <<"\". How can I help you further?">>
    [] k = 2 -> <<"Thanks for your message: \"">> \o message
                  \o <<"\". I'm here to assist you!">>
    [] OTHER -> <<"You mentioned: \"">> \o message
                  \o <<"\". Let me help you with that.">>

\* NextResponse.json(body, {status})
Json(status, reply) == [status |-> status, body |-> [reply |-> reply]]

\* response.ok
ResponseOk(status) == status >= 200 /\ status <= 299

\* the HTTP error branch without the 429 case
ErrorMessageNoRateLimit(status) ==
  IF status = 401 \/ status = 403 THEN AuthFailedText
  ELSE IF status >= 500 THEN ServerIssueText
  ELSE UnavailableText

\* the message chosen in the HTTP error branch
ErrorMessage(status) ==
  IF status = 401 \/ status = 403 THEN AuthFailedText
  ELSE IF status = 429 THEN RateLimitedText
  ELSE IF status >= 500 THEN ServerIssueText
  ELSE UnavailableText

\* clearTimeout: cancels a pending timer, no effect on any other
ClearTimeout(t) == IF t = "armed" THEN "cleared" ELSE t

\* the catch around the fetch: which reply an error of that name gets
FetchCatch(name) ==
  IF name = "AbortError" THEN Json(200, TimeoutText)
  ELSE Json(200, UnreachableText)

\* ------------------------------------------------------ upstream bodies
\* the members the reply extraction reads, in the order it reads them
ReplyPaths ==
  <<"reply", "message", "text", "response", "content", "answer", "output",
    "rawText", "choices[0].message.content",
    "data.message", "data.reply", "data.text",
    "result.message", "result.text", "result.reply">>
FlatPaths == {ReplyPaths[i] : i \in 1..8}
PathSet == {ReplyPaths[i] : i \in 1..Len(ReplyPaths)}

\* a parsed value: its type, its text when it is a string, and what each
\* member the extraction reads evaluates to on it
Data(t, str, members) ==
  [t |-> t, s |-> str,
   f |-> [q \in PathSet |-> IF q \in DOMAIN members THEN members[q] ELSE Undefined]]
NoMembers == [q \in {} |-> Undefined]
Object(members) == Data("object", << >>, members)

ChoicesPath == "choices[0].message.content"

\* the JSON documents the upstream is taken to send, as texts
DocChoicesHello == <<"{\"choices\":[{\"message\":{\"content\":\"hello\"}}]}">>
DocChoicesPadded == <<"{\"choices\":[{\"message\":{\"content\":\" hello \"}}]}">>
DocChoicesBlank == <<"{\"choices\":[{\"message\":{\"content\":\" \"}}]}">>
DocChoicesNumber == <<"{\"choices\":[{\"message\":{\"content\":5}}]}">>
DocReply == <<"{\"reply\":\"hi\"}">>
DocReplyAndChoices ==
  <<"{\"reply\":\"hi\",\"choices\":[{\"message\":{\"content\":\"hello\"}}]}">>
DocEmptyReplyAndChoices ==
  <<"{\"reply\":\"\",\"choices\":[{\"message\":{\"content\":\"hello\"}}]}">>
DocReplyNumber == <<"{\"reply\":42}">>
DocNumberReplyAndMessage == <<"{\"reply\":42,\"message\":\"m\"}">>
DocZeroReplyAndMessage == <<"{\"reply\":0,\"message\":\"m\"}">>
DocBlankReplyAndMessage == <<"{\"reply\":\" \",\"message\":\"m\"}">>
DocDataText == <<"{\"data\":{\"text\":\"d\"}}">>
DocResultReply == <<"{\"result\":{\"reply\":\"r\"}}">>
DocEmptyObject == <<"{}">>
DocString == <<"\"hello\"">>
DocNull == <<"null">>
DocNumber == <<"42">>
Docs ==
  {DocChoicesHello, DocChoicesPadded, DocChoicesBlank, DocChoicesNumber,
   DocReply, DocReplyAndChoices, DocEmptyReplyAndChoices, DocReplyNumber,
   DocNumberReplyAndMessage, DocZeroReplyAndMessage, DocBlankReplyAndMessage,
   DocDataText, DocResultReply, DocEmptyObject, DocString, DocNull, DocNumber}

\* bodies that are not JSON
PlainText == <<"plain", " ", "text">>
PlainPadded == <<" ", "plain", " ">>
Bodies ==
  Docs \cup {<<" ">> \o d \o <<" ">> : d \in {DocReply, DocChoicesHello}}
       \cup {<< >>, <<" ">>, <<" ", " ">>, PlainText, PlainPadded}

\* JSON.parse: white space around the document is skipped; ok is FALSE
\* where it throws a SyntaxError
JSONParse(raw) ==
  LET d == Trim(raw) IN
  CASE d = DocChoicesHello ->
         [ok |-> TRUE, data |-> Object(ChoicesPath :> Str(<<"hello">>))]
    [] d = DocChoicesPadded ->
         [ok |-> TRUE, data |-> Object(ChoicesPath :> Str(<<" ", "hello", " ">>))]
    [] d = DocChoicesBlank ->
         [ok |-> TRUE, data |-> Object(ChoicesPath :> Str(<<" ">>))]
    [] d = DocChoicesNumber ->
         [ok |-> TRUE, data |-> Object(ChoicesPath :> Num(<<"5">>))]
    [] d = DocReply ->
         [ok |-> TRUE, data |-> Object("reply" :> Str(<<"hi">>))]
    [] d = DocReplyAndChoices ->
         [ok |-> TRUE, data |-> Object(("reply" :> Str(<<"hi">>))
                                        @@ (ChoicesPath :> Str(<<"hello">>)))]
    [] d = DocEmptyReplyAndChoices ->
         [ok |-> TRUE, data |-> Object(("reply" :> Str(<< >>))
                                        @@ (ChoicesPath :> Str(<<"hello">>)))]
    [] d = DocReplyNumber ->
         [ok |-> TRUE, data |-> Object("reply" :> Num(<<"42">>))]
    [] d = DocNumberReplyAndMessage ->
         [ok |-> TRUE, data |-> Object(("reply" :> Num(<<"42">>))
                                        @@ ("message" :> Str(<<"m">>)))]
    [] d = DocZeroReplyAndMessage ->
         [ok |-> TRUE, data |-> Object(("reply" :> Num(<<"0">>))
                                        @@ ("message" :> Str(<<"m">>)))]
    [] d = DocBlankReplyAndMessage ->
         [ok |-> TRUE, data |-> Object(("reply" :> Str(<<" ">>))
                                        @@ ("message" :> Str(<<"m">>)))]
    [] d = DocDataText ->
         [ok |-> TRUE, data |-> Object("data.text" :> Str(<<"d">>))]
    [] d = DocResultReply ->
         [ok |-> TRUE, data |-> Object("result.reply" :> Str(<<"r">>))]
    [] d = DocEmptyObject -> [ok |-> TRUE, data |-> Object(NoMembers)]
    [] d = DocString ->
         [ok |-> TRUE, data |-> Data("string", <<"hello">>, NoMembers)]
    [] d = DocNull -> [ok |-> TRUE, data |-> Data("null", << >>, NoMembers)]
    [] d = DocNumber -> [ok |-> TRUE, data |-> Data("number", <<"42">>, NoMembers)]
    [] OTHER -> [ok |-> FALSE, data |-> Data("undefined", << >>, NoMembers)]

\* the parse block leaving data = {} when JSON.parse throws
ParseOrEmptyObject(raw) ==
  LET parsed == JSONParse(raw) IN
  IF parsed.ok /\ parsed.data.t # "null" THEN parsed.data ELSE Object(NoMembers)

\* the "Safely parse JSON" block: the parsed value, or {rawText: raw} when
\* JSON.parse throws or Object.keys(data) throws (data is null)
ParseOrRawText(raw) ==
  LET parsed == JSONParse(raw) IN
  IF parsed.ok /\ parsed.data.t # "null"
    THEN parsed.data
    ELSE Object("rawText" :> Str(raw))

\* ------------------------------------------------------ reply extraction
\* the extraction reading the flat members only
ExtractReplyFlatOnly(data) ==
  LET hits == {i \in 1..8 : Truthy(data.f[ReplyPaths[i]])} IN
  IF hits # {}
    THEN data.f[ReplyPaths[CHOOSE i \in hits : \A j \in hits : i <= j]]
    ELSE IF data.t = "string" /\ data.s # << >> THEN Str(data.s) ELSE Null

\* data.reply || data.message || ... || (typeof data === 'string' ? data
\* : null) || null: the first truthy operand, else null
ExtractReply(data) ==
  LET hits == {i \in 1..Len(ReplyPaths) : Truthy(data.f[ReplyPaths[i]])} IN
  IF hits # {}
    THEN data.f[ReplyPaths[CHOOSE i \in hits : \A j \in hits : i <= j]]
    ELSE IF data.t = "string" /\ data.s # << >> THEN Str(data.s) ELSE Null

\* the final test on the extracted reply, without the test that the
\* trimmed reply is non-empty
FinalReplyUnchecked(reply) ==
  IF Truthy(reply) /\ reply.t = "string"
    THEN Json(200, Trim(reply.s))
    ELSE Json(200, UnavailableText)

\* the final test on the extracted reply and the reply returned
FinalReply(reply) ==
  IF Truthy(reply) /\ reply.t = "string" /\ Trim(reply.s) # << >>
    THEN Json(200, Trim(reply.s))
    ELSE Json(200, UnavailableText)

\* the HTTP error branch returning the upstream's own status
HttpErrorPropagated(status) == Json(status, ErrorMessage(status))

\* the HTTP error branch
HttpError(status) == Json(200, ErrorMessage(status))

\* a body that parsed or fell back to {rawText}: extraction, the logging
\* call reply.substring (a TypeError on a truthy reply that is no string,
\* caught by the catch around the fetch) and the final test
Extracted(raw) ==
  LET reply == ExtractReply(ParseOrRawText(raw)) IN
  IF Truthy(reply) /\ reply.t # "string"
    THEN FetchCatch("TypeError")
    ELSE FinalReply(reply)

\* everything after the body has been read
Respond(status, raw) ==
  IF ~ResponseOk(status) THEN HttpError(status)
  ELSE IF raw = << >> \/ Trim(raw) = << >> THEN Json(200, EmptyResponseText)
  ELSE Extracted(raw)

\* --------------------------------------------------------------- actions
\* POST up to its first suspension on the upstream: request.json() and the
\* destructuring (a body that is not JSON, or is null, throws to the outer
\* catch), validation, the mock switch, the timer and the fetch call
POST(req, enabled, k) ==
  /\ aiPc \in {"idle", "done"}
  /\ aiRequest' = [json |-> req.json, message |-> req.message, enabled |-> enabled]
  /\ controller' = [aborted |-> FALSE]
  /\ response' = NoUpstream
  /\ rawResponseText' = << >>
  /\ IF req.json # "object"
       THEN /\ aiResult' = Json(500, UnavailableText)
            /\ aiPc' = "done" /\ timeoutId' = "none" /\ fetchCalls' = << >>
     ELSE IF InvalidMessage(req.message)
       THEN /\ aiResult' = Json(400, InvalidRequestText)
            /\ aiPc' = "done" /\ timeoutId' = "none" /\ fetchCalls' = << >>
     ELSE IF ~enabled
       THEN /\ aiResult' = Json(200, getMockResponse(k, Trim(req.message.s)))
            /\ aiPc' = "done" /\ timeoutId' = "none" /\ fetchCalls' = << >>
     ELSE /\ aiResult' = NoResult
          /\ aiPc' = "fetch" /\ timeoutId' = "armed"
          /\ fetchCalls' = <<[prompt |-> Trim(req.message.s),
                              message |-> Trim(req.message.s)]>>
  /\ UNCHANGED <<compVars, sessVars, backVars, sendVars, harnessVars, tokVars>>

\* fetch resolved with a response: the timer is cleared, the body is read
FetchResolved(status) ==
  /\ aiPc = "fetch" /\ ~controller.aborted
  /\ response' = [status |-> status, body |-> "pending"]
  /\ timeoutId' = ClearTimeout(timeoutId)
  /\ aiPc' = "body"
  /\ UNCHANGED <<aiRequest, controller, rawResponseText, fetchCalls, aiResult>>
  /\ UNCHANGED <<compVars, sessVars, backVars, sendVars, harnessVars, tokVars>>

\* the catch around the fetch leaving the timer as it is
FetchRejectedNoClear ==
  /\ aiPc = "fetch" /\ ~controller.aborted
  /\ aiResult' = FetchCatch("TypeError")
  /\ aiPc' = "done"
  /\ UNCHANGED <<aiRequest, controller, response, rawResponseText, fetchCalls,
                 timeoutId>>
  /\ UNCHANGED <<compVars, sessVars, backVars, sendVars, harnessVars, tokVars>>

\* fetch rejected (network error): the catch around the fetch
FetchRejected ==
  /\ aiPc = "fetch" /\ ~controller.aborted
  /\ timeoutId' = ClearTimeout(timeoutId)
  /\ aiResult' = FetchCatch("TypeError")
  /\ aiPc' = "done"
  /\ UNCHANGED <<aiRequest, controller, response, rawResponseText, fetchCalls>>
  /\ UNCHANGED <<compVars, sessVars, backVars, sendVars, harnessVars, tokVars>>

\* the 30-second timer fires while the fetch is pending: controller.abort()
TimerFires ==
  /\ aiPc = "fetch" /\ timeoutId = "armed"
  /\ timeoutId' = "fired"
  /\ controller' = [aborted |-> TRUE]
  /\ UNCHANGED <<aiPc, aiRequest, response, rawResponseText, fetchCalls, aiResult>>
  /\ UNCHANGED <<compVars, sessVars, backVars, sendVars, harnessVars, tokVars>>

\* the aborted fetch rejects with an AbortError: the catch around the fetch
FetchAborted ==
  /\ aiPc = "fetch" /\ controller.aborted
  /\ timeoutId' = ClearTimeout(timeoutId)
  /\ aiResult' = FetchCatch("AbortError")
  /\ aiPc' = "done"
  /\ UNCHANGED <<aiRequest, controller, response, rawResponseText, fetchCalls>>
  /\ UNCHANGED <<compVars, sessVars, backVars, sendVars, harnessVars, tokVars>>

\* response.text() resolved: status test, empty test, parse, extraction
BodyRead(raw) ==
  /\ aiPc = "body"
  /\ rawResponseText' = raw
  /\ response' = [response EXCEPT !.body = "read"]
  /\ aiResult' = Respond(response.status, raw)
  /\ aiPc' = "done"
  /\ UNCHANGED <<aiRequest, controller, timeoutId, fetchCalls>>
  /\ UNCHANGED <<compVars, sessVars, backVars, sendVars, harnessVars, tokVars>>

\* response.text() rejected: rethrown as an Error to the catch around the
\* fetch
BodyReadFailed ==
  /\ aiPc = "body"
  /\ response' = [response EXCEPT !.body = "failed"]
  /\ timeoutId' = ClearTimeout(timeoutId)
  /\ aiResult' = FetchCatch("Error")
  /\ aiPc' = "done"
  /\ UNCHANGED <<aiRequest, controller, rawResponseText, fetchCalls>>
  /\ UNCHANGED <<compVars, sessVars, backVars, sendVars, harnessVars, tokVars>>

NextReply ==
  \/ \E req \in Requests, enabled \in BOOLEAN, k \in 1..3 : POST(req, enabled, k)
  \/ \E status \in UpstreamStatuses : FetchResolved(status)
  \/ FetchRejected
  \/ TimerFires
  \/ FetchAborted
  \/ \E raw \in Bodies : BodyRead(raw)
  \/ BodyReadFailed

\* invocations of the AI reply route, one after the other
SpecReply == Init /\ [][NextReply]_vars

\* ----------------------------------------------- claims on the AI route
\* an invocation has returned
Returned == aiPc = "done"
\* the request carries a valid, non-empty message
CarriesMessage ==
  /\ aiRequest.json = "object"
  /\ aiRequest.message.t = "string"
  /\ Trim(aiRequest.message.s) # << >>
\* the upstream answered with a success status and its body was read
UpstreamSuccess ==
  /\ Returned /\ response.body = "read"
  /\ response.status >= 200 /\ response.status <= 299
\* the upstream answered with a non-success status
UpstreamFailure ==
  /\ Returned /\ response.status # 0
  /\ ~(response.status >= 200 /\ response.status <= 299)
\* the body parsed to a structure with no flat reply member whose
\* choices[0].message.content is the string str
ChoicesContentIs(str) ==
  LET parsed == JSONParse(rawResponseText) IN
  /\ parsed.ok /\ parsed.data.t = "object"
  /\ \A q \in FlatPaths : parsed.data.f[q] = Undefined
  /\ parsed.data.f[ChoicesPath] = Str(str)
ChoicesContents == {<<"hello">>, <<" ", "hello", " ">>, <<" ">>}

\* C11: the status the route returns is 200, 400 or 500; it is 200 whenever
\* the request carries a valid non-empty message; and whenever the upstream
\* answered with a status other than 200 that status is not the one
\* returned (the route returns 200).
C11_StatusIs200_400_500 ==
  Returned =>
    /\ aiResult.status \in {200, 400, 500}
    /\ (CarriesMessage => aiResult.status = 200)
    /\ (response.status \notin {0, 200} =>
          aiResult.status = 200 /\ aiResult.status # response.status)

C11_Witness ==
  /\ Returned /\ CarriesMessage
  /\ response.status = 429 /\ response.body = "read"
  /\ aiResult.status = 200

\* C12: every response of the route carries exactly the one member reply,
\* a non-empty string, and every invocation that ends ends with a response.
C12_ReplyIsNonEmptyString ==
  Returned =>
    /\ aiResult.status # 0
    /\ DOMAIN aiResult.body = {"reply"}
    /\ aiResult.body.reply # << >>
    /\ \A i \in DOMAIN aiResult.body.reply : aiResult.body.reply[i] # ""

C12_Witness ==
  /\ UpstreamSuccess /\ ChoicesContentIs(<<" ">>)
  /\ aiResult = Json(200, UnavailableText)

\* C13 as stated: a success response whose body has no flat reply member and
\* whose choices[0].message.content is a non-empty string s is answered with
\* status 200 and reply s trimmed.
C13_ChoicesContentReturned ==
  \A str \in ChoicesContents :
    UpstreamSuccess /\ ChoicesContentIs(str) /\ str # << >>
      => aiResult = Json(200, Trim(str))

\* C13 amended: ... whose choices[0].message.content is a string s that is
\* non-empty after trimming is answered with status 200 and reply s trimmed.
C13_NonBlankChoicesContentReturned ==
  \A str \in ChoicesContents :
    UpstreamSuccess /\ ChoicesContentIs(str) /\ Trim(str) # << >>
      => aiResult = Json(200, Trim(str))

C13_Witness ==
  /\ UpstreamSuccess /\ ChoicesContentIs(<<" ", "hello", " ">>)
  /\ aiResult = Json(200, <<"hello">>)

\* C14 as stated: a success response whose non-empty body is not valid JSON
\* is answered with status 200 and the raw body text, trimmed, as reply.
C14_RawTextReturned ==
  UpstreamSuccess /\ rawResponseText # << >> /\ ~JSONParse(rawResponseText).ok
    => aiResult = Json(200, Trim(rawResponseText))

\* C14 amended: a success response whose body is not valid JSON and is
\* non-empty after trimming is answered with status 200 and the raw body
\* text, trimmed, as reply.
C14_NonBlankRawTextReturned ==
  UpstreamSuccess /\ Trim(rawResponseText) # << >>
                  /\ ~JSONParse(rawResponseText).ok
    => aiResult = Json(200, Trim(rawResponseText))

C14_Witness ==
  /\ UpstreamSuccess /\ rawResponseText = PlainPadded
  /\ aiResult = Json(200, <<"plain">>)

\* the fallback text of a non-success status, by status class
ClassText(status) ==
  CASE status \in {401, 403} -> AuthFailedText
    [] status = 429 -> RateLimitedText
    [] status >= 500 -> ServerIssueText
    [] OTHER -> UnavailableText
ClassTextsDistinct ==
  Cardinality({AuthFailedText, RateLimitedText, ServerIssueText,
               UnavailableText}) = 4

C16_TimeoutAbortsAndTimerCleared ==
  /\ TimeoutText \notin {UnreachableText, UnavailableText}
  /\ timeoutId = "fired" =>
       /\ controller.aborted /\ response.status = 0
       /\ Returned => aiResult = Json(200, TimeoutText)
  /\ aiPc \in {"body", "done"} /\ fetchCalls # << >> /\ timeoutId # "fired"
       => timeoutId = "cleared" /\ ~controller.aborted
  /\ Returned /\ aiResult = Json(200, TimeoutText) => timeoutId = "fired"

C16_Witness ==
  /\ Returned /\ timeoutId = "fired" /\ aiResult = Json(200, TimeoutText)

\* the request has no message, a message that is not a string, or one that
\* is empty after trimming
MessageMissingOrEmpty ==
  \/ aiRequest.json # "object"
  \/ aiRequest.message.t # "string"
  \/ Trim(aiRequest.message.s) = << >>

\* C17: the route answers 400, having made no outbound call, exactly when
\* the request's message is missing, is not a string or is empty after
\* trimming, whether or not the mock switch is set.
C17_Status400IffMessageInvalid ==
  Returned =>
    /\ aiResult.status = 400 <=> MessageMissingOrEmpty
    /\ aiResult.status = 400 => fetchCalls = << >>


\* ======================================================================
\* The token route: GET of src/app/api/ably-token/route.ts
\* ======================================================================
\* The Ably REST client is the environment: its constructor throws on a key
\* that is not of the form name:secret, and createTokenRequest resolves
\* with a token request carrying the clientId and capability it was given,
\* or rejects, after any delay.

\* process.env.ABLY_API_KEY: unset, empty, not a key, a key
Absent == "<absent>"
ApiKeys == {Absent, "", "malformed", "app.key:secret"}
\* the query string: clientId absent, empty or given, and a channel
\* parameter the client may add
ClientIdParams == {Absent, "", "A", "B", "C", "anon"}
ChannelParams == {Absent, "chat:private"}

KeyIsValid(key) == key = "app.key:secret"
KeyName(key) == IF KeyIsValid(key) THEN "app.key" ELSE ""

\* searchParams.get('clientId') || 'anon'
ClientIdOf(req) ==
  IF req.clientId = Absent \/ req.clientId = "" THEN "anon" ELSE req.clientId

\* tokenParams naming the channel the request asks for
TokenParamsRequestedChannel(req) ==
  [clientId |-> ClientIdOf(req),
   capability |->
     (IF req.channel = Absent THEN "chat:general" ELSE req.channel)
        :> {"subscribe", "publish", "presence", "history"}]

\* tokenParams
TokenParams(req) ==
  [clientId |-> ClientIdOf(req),
   capability |->
     "chat:general" :> {"subscribe", "publish", "presence", "history"}]

\* ably.auth.createTokenRequest(tokenParams), resolved
CreateTokenRequest(key, params) ==
  [keyName |-> KeyName(key), clientId |-> params.clientId,
   capability |-> params.capability]

\* NextResponse.json({error}, {status: 500})
ErrorJson(text) == [status |-> 500, error |-> text, token |-> NoToken]

\* GET up to its first suspension: the key test, the client identifier, the
\* REST client (its constructor throws on a malformed key: the catch) and
\* the createTokenRequest call
GET(key, req) ==
  /\ tokPc \in {"idle", "done"}
  /\ tokRequest' = [key |-> key, clientId |-> req.clientId, channel |-> req.channel]
  /\ tokenRequest' = NoToken
  /\ mintOverdue' = FALSE
  /\ IF key = Absent \/ key = ""
       THEN /\ tokResult' = ErrorJson("Ably API Key is not configured")
            /\ tokPc' = "done" /\ mintCalls' = 0
     ELSE IF ~KeyIsValid(key)
       THEN /\ tokResult' = ErrorJson("Failed to generate token")
            /\ tokPc' = "done" /\ mintCalls' = 0
     ELSE /\ tokResult' = NoTokResult
          /\ tokPc' = "mint" /\ mintCalls' = 1
  /\ UNCHANGED <<compVars, sessVars, backVars, sendVars, harnessVars, aiVars>>

\* createTokenRequest resolved: the token request is returned
MintResolved ==
  /\ tokPc = "mint"
  /\ tokenRequest' = CreateTokenRequest(tokRequest.key, TokenParams(tokRequest))
  /\ tokResult' = [status |-> 200, error |-> "", token |-> tokenRequest']
  /\ tokPc' = "done"
  /\ UNCHANGED <<tokRequest, mintCalls, mintOverdue>>
  /\ UNCHANGED <<compVars, sessVars, backVars, sendVars, harnessVars, aiVars>>

\* createTokenRequest rejected: the catch
MintRejected ==
  /\ tokPc = "mint"
  /\ tokResult' = ErrorJson("Failed to generate token")
  /\ tokPc' = "done"
  /\ UNCHANGED <<tokRequest, mintCalls, tokenRequest, mintOverdue>>
  /\ UNCHANGED <<compVars, sessVars, backVars, sendVars, harnessVars, aiVars>>

\* ten seconds pass with createTokenRequest still pending: the route has no
\* timer, it goes on waiting
MintOverdue ==
  /\ tokPc = "mint" /\ ~mintOverdue
  /\ mintOverdue' = TRUE
  /\ UNCHANGED <<tokPc, tokRequest, mintCalls, tokenRequest, tokResult>>
  /\ UNCHANGED <<compVars, sessVars, backVars, sendVars, harnessVars, aiVars>>

NextToken ==
  \/ \E key \in ApiKeys, c \in ClientIdParams, ch \in ChannelParams :
       GET(key, [clientId |-> c, channel |-> ch])
  \/ MintResolved
  \/ MintRejected
  \/ MintOverdue

\* invocations of the token route, one after the other
SpecToken == Init /\ [][NextToken]_vars

\* ---------------------------------------------- claims on the token route
\* C18: when the key is absent or malformed, or the credential-minting call
\* fails or does not answer within the ten seconds the route allows it, the
\* route answers 500 with an error body and no token request, and with an
\* absent or malformed key the minting call is never made.
C18_FailsClosed ==
  tokPc = "done" =>
    /\ ~KeyIsValid(tokRequest.key) =>
         /\ tokResult.status = 500 /\ tokResult.error # ""
         /\ tokResult.token = NoToken /\ tokenRequest = NoToken
         /\ mintCalls = 0
    /\ tokenRequest = NoToken =>
         tokResult.status = 500 /\ tokResult.error # ""
                                /\ tokResult.token = NoToken
    /\ mintOverdue =>
         /\ tokResult.status = 500 /\ tokResult.error # ""
         /\ tokResult.token = NoToken /\ tokenRequest = NoToken

\* C19: every credential minted is scoped to the channel chat:general alone
\* with exactly the capabilities subscribe, publish, presence and history,
\* whatever the request asks for, and carries the client identifier of the
\* request, or anon when the request gives none; the credential returned is
\* the one minted.
C19_FixedChannelAndCapability ==
  /\ tokenRequest # NoToken =>
       /\ DOMAIN tokenRequest.capability = {"chat:general"}
       /\ tokenRequest.capability["chat:general"]
            = {"subscribe", "publish", "presence", "history"}
       /\ tokenRequest.clientId =
            (IF tokRequest.clientId \in {Absent, ""}
               THEN "anon" ELSE tokRequest.clientId)
       /\ tokResult = [status |-> 200, error |-> "", token |-> tokenRequest]
  /\ tokPc = "done" /\ tokResult.status = 200 => tokenRequest # NoToken

C19_Witness ==
  /\ tokPc = "done" /\ tokResult.status = 200
  /\ tokRequest.clientId = "A" /\ tokRequest.channel = "chat:private"
  /\ tokenRequest.clientId = "A"


\* ======================================================================
\* Message events, the session's own publishes included
\* ======================================================================
\* the first session with handleSendMessage and another participant
\* publishing: every message on the channel, the session's own and the
\* assistant's replies it publishes included, comes back as an event
NextEcho ==
  \/ GenerateUsername
  \/ Unmount
  \/ \E s \in Sessions : TokenOk(s)
  \/ \E s \in Sessions : AttachOk(s)
  \/ \E s \in Sessions : DeliverMessage(s)
  \/ \E s \in Sessions : ConnConnected(s)
  \/ OtherPublish
  \/ \E t \in Texts : SetMessageText(t)
  \/ HandleSendMessage
  \/ \E i \in Sends : UserPublishOk(i)
  \/ \E i \in Sends, r \in Replies : AiResponse(i, TRUE, r)
  \/ \E i \in Sends : AiPublishOk(i)

SpecEcho == Init /\ [][NextEcho]_vars

\* C20: the message handler runs once per delivered event and, while the
\* component is mounted, appends exactly one entry, built from that event,
\* to the end of the list, leaving the entries before it as they were; the
\* events are taken in arrival order, those echoing the session's own
\* publishes like any other.
C20_EventAppendsOneEntry ==
  [][/\ \A s \in Sessions :
          cursor[s] > 0 /\ cursor'[s] # cursor[s] =>
            /\ cursor'[s] = cursor[s] + 1
            /\ mounted =>
                 /\ Len(messages') = Len(messages) + 1
                 /\ SubSeq(messages', 1, Len(messages)) = messages
                 /\ messages'[Len(messages')].id = log[cursor[s]].id
                 /\ messages'[Len(messages')].text = log[cursor[s]].text
                 /\ messages'[Len(messages')].sender = log[cursor[s]].sender
     /\ (\A s \in Sessions : cursor[s] > 0 => cursor'[s] = cursor[s])
          => messages' = messages]_vars

\* an event of another participant and then the echo of the session's own
\* publish have been appended, in that order
C20_Witness ==
  /\ mounted /\ username # "" /\ Len(messages) = 2
  /\ messages[1] = ToMessage(log[1]) /\ messages[1].sender = OtherSender
  /\ messages[2] = ToMessage(log[2]) /\ messages[2].sender = username
  /\ cursor[1] = 3

\* ------------------------------------------------------------------ C21
\* C21: a message delivered to the session as an event stays in the local
\* message list at every later state; in particular the history load, which
\* replaces the list, drops no message that arrived as an event while the
\* history request was in flight.
\* Under SpecSession an entry enters the list through an event or through
\* the history load, and the first entries can only come from events, so
\* the claim is that no step of a shown chat removes an entry of the list.
HasId(list, id) == \E j \in DOMAIN list : list[j].id = id

C21_DeliveredMessagesStay ==
  [][mounted' =>
       \A k \in DOMAIN messages : HasId(messages', messages[k].id)]_vars

\* ------------------------------------------------------------------ C22
\* the entries on the channel that carry the assistant's sender label
AssistantEntries == {k \in DOMAIN log : log[k].sender = AssistantLabel}

\* the sends whose proxy call answered with a success status and a non-empty
\* reply after their user message was published
AnsweredSends ==
  {i \in Sends : send[i].userPubs = 1 /\ send[i].aiOk /\ send[i].reply # << >>}

\* C22: for each send at most one message with the assistant's sender label
\* is published, only after the user message was published and the proxy
\* answered with a success status and a non-empty reply, and its text is
\* that reply; after a non-success status or an empty reply no assistant
\* message is published (none is even issued).
C22_OneAssistantMessagePerAnsweredSend ==
  /\ \A i \in Sends :
        /\ Len(send[i].aiPubs) <= 1
        /\ send[i].aiPubs # << >>
             => /\ i \in AnsweredSends
                /\ send[i].aiPubs[1] = send[i].reply
        /\ send[i].pc = "pubAI" => i \in AnsweredSends
        /\ (send[i].pc = "done" /\ i \notin AnsweredSends)
             => send[i].aiPubs = << >>
  /\ Cardinality(AssistantEntries) <= Cardinality(AnsweredSends)
  /\ \A k \in AssistantEntries :
        \E i \in AnsweredSends : send[i].aiPubs = <<log[k].text>>

\* C22 witness: the first send's user message and the assistant's reply to
\* it are both on the channel
C22_Witness ==
  /\ send[1].pc = "done" /\ send[1].userPubs = 1
  /\ send[1].aiPubs = <<send[1].reply>> /\ send[1].reply # << >>
  /\ Len(log) = 2 /\ log[2].sender = AssistantLabel
  /\ log[2].text = send[1].reply

\* ------------------------------------------------------------------ C23
\* C23: when the proxy call or the publish of the reply fails after the user
\* message was published, nothing but a log line follows: no notice, the
\* input text is left as it is, the user message is not published again,
\* the proxy is not called again and the reply is not published again.
C23_AiFailureOnlyLogged ==
  [][\A i \in Sends :
       /\ (/\ send[i].pc \in {"ai", "pubAI"}
           /\ send'[i].pc = "done"
           /\ send'[i].aiPubs = send[i].aiPubs)
            => /\ alerts' = alerts
               /\ ~send'[i].alerted
               /\ messageText' = messageText
               /\ log' = log
               /\ send'[i].userPubs = send[i].userPubs
               /\ send'[i].aiCalls = send[i].aiCalls
       /\ send[i].pc = "done"
            => /\ send'[i].pc = "done"
               /\ send'[i].userPubs = send[i].userPubs
               /\ send'[i].aiCalls = send[i].aiCalls
               /\ send'[i].aiPubs = send[i].aiPubs
       /\ Len(send'[i].aiCalls) <= 1
       /\ send'[i].userPubs <= 1]_vars

\* C23 witness: the proxy answered the first send with a reply, the publish
\* of that reply was rejected, and no notice was shown
C23_Witness ==
  /\ send[1].pc = "done" /\ send[1].userPubs = 1
  /\ send[1].aiOk /\ send[1].reply # << >> /\ send[1].aiPubs = << >>
  /\ ~send[1].alerted /\ alerts = 0
  /\ Len(send[1].aiCalls) = 1

\* ------------------------------------------------------------------ C24
\* the channel in channelRef is live: its connection is connected
LiveChannel(chan, connF) == chan # 0 /\ connF[chan] = "connected"

\* C24: when the display name changes while the session is connected, a
\* presence update with the new name is issued on the session's live
\* channel: after the change the channel of the session is still live and its
\* presence entry carries the new name.
C24_RenameUpdatesPresenceOnLiveChannel ==
  [][(/\ mounted /\ username # "" /\ username' # username
      /\ isConnected /\ LiveChannel(channelRef, connState))
       => /\ LiveChannel(channelRef', connState')
          /\ \E e \in PresenceOf(presence', channelRef') :
                e.username = username']_vars

\* ------------------------------------------------------------------ C25
\* C25: the connection status becomes connected only on a 'connected' event
\* of the backend and not-connected on 'disconnected' or 'failed'; a
\* disconnected connection may connect again; 'failed' is final for the
\* session: its connection stays failed, its initialization is not started
\* again, and with the display name left alone no new initialization starts.
C25_ConnectionStatusMachine ==
  [][/\ (isConnected' /\ ~isConnected)
          => \E s \in Sessions :
               connState[s] # "connected" /\ connState'[s] = "connected"
     /\ (isConnected /\ ~isConnected')
          => \E s \in Sessions :
               /\ connState[s] # connState'[s]
               /\ connState'[s] \in {"disconnected", "failed"}
     /\ \A s \in Sessions :
          /\ (mounted /\ connState'[s] # connState[s])
               => /\ connState'[s] = "connected" => isConnected'
                  /\ connState'[s] \in {"disconnected", "failed"} => ~isConnected'
          /\ connState'[s] = "connected"
               => connState[s] \in {"connecting", "connected", "disconnected"}
          /\ connState[s] = "failed"
               => /\ connState'[s] = "failed"
                  /\ initPc'[s] = "token" => initPc[s] = "token"
     /\ (\E s \in Sessions : connState[s] = "failed") => nInit' = nInit]_vars

\* C25 witness: the session's connection has failed after its
\* initialization, the chat is shown as not connected and nothing is pending
C25_Witness ==
  /\ mounted /\ connState[1] = "failed" /\ initPc[1] = "done"
  /\ ~isConnected /\ ~isLoading /\ nInit = 1

\* ------------------------------------------------------------------ C26
\* C26: when the token request of the current initialization fails, the
\* initialization halts: no connection is opened, no message or presence
\* handler is registered, presence is not entered, the message list and the
\* roster are not touched, loading has ended and the status shown is not
\* connected.  Stated for a failure that finds every earlier initialization
\* finished.
C26_TokenFailureHalts ==
  [][\A s \in Sessions :
       (/\ initPc[s] = "token" /\ initPc'[s] = "failed" /\ effectInit = s
        /\ \A t \in Sessions \ {s} : initPc[t] \in {"idle", "done", "failed"})
         => /\ connState'[s] = "none"
            /\ ~subscribed'[s] /\ ~presSubscribed'[s]
            /\ PresenceOf(presence', s) = {}
            /\ messages' = messages
            /\ presenceMembers' = presenceMembers
            /\ ~isLoading'
            /\ ~isConnected']_vars

\* ------------------------------------------------------------------ C27
\* C27: a failed history request is swallowed: the message list, the roster,
\* the connection status, the message subscription and the presence entry
\* are left as they are, the initialization ends normally and nothing is
\* torn down.  The request has failed when it ends without an answered page.
C27_HistoryFailureSwallowed ==
  [][\A s \in Sessions :
       (initPc[s] = "history" /\ initPc'[s] \notin {"history", "historyReply"})
         => /\ initPc'[s] = "done"
            /\ UNCHANGED <<messages, presenceMembers, isConnected, isLoading>>
            /\ UNCHANGED <<connState, subscribed, presSubscribed, presence>>
            /\ UNCHANGED <<tornDown, ablyClientRef, channelRef, cursor>>]_vars

\* C27 witness: the channel held a message when the session attached, the
\* initialization has ended, and no history page was ever loaded: the
\* history request failed.  The list holds what events delivered.
C27_Witness ==
  /\ mounted /\ initPc[1] = "done" /\ connState[1] = "connected"
  /\ Len(log) = 2 /\ cursor[1] = 3
  /\ lastHistory.session = 0
  /\ messages = <<ToMessage(log[2])>>
  /\ subscribed[1] /\ PresenceOf(presence, 1) # {}

\* ------------------------------------------------------------------ C28
\* the display name and the start of each initialization: name changes,
\* token requests and the connection coming up
NextName ==
  \/ GenerateUsername
  \/ \E v \in Names \cup {""} : SetUsername(v)
  \/ Unmount
  \/ \E s \in Sessions : TokenOk(s)
  \/ \E s \in Sessions : TokenFail(s)
  \/ \E s \in Sessions : ConnConnected(s)
  \/ \E s \in Sessions : ConnFailed(s)

SpecName == Init /\ [][NextName]_vars

\* C28: no initialization is started with an empty display name: on first
\* load and when the user clears the name a guest name is generated before
\* any token request, and the clientId of the token request and of the
\* connection is that non-empty display name.
C28_InitializationHasNonEmptyName ==
  [][/\ nInit' # nInit
          => /\ nInit' = nInit + 1
             /\ username' \in Names
             /\ clientId'[nInit'] = username'
             /\ initPc'[nInit'] = "token"
             /\ effectInit' = nInit'
     /\ \A s \in Sessions :
          /\ initPc'[s] # "idle" => clientId'[s] \in Names
          /\ initPc[s] # "idle" => clientId'[s] = clientId[s]
     /\ (mounted' /\ effectInit' # 0)
          => /\ username' # ""
             /\ clientId'[effectInit'] = username'
     /\ username' = "" => nInit' = 0]_vars

\* C28 witness: the second initialization holds its token and is connecting
\* under the same name as the first one: the user had cleared the name (a
\* change to the same name is no change) and the guest name generated
\* happened to be the same
C28_Witness ==
  /\ mounted /\ nInit = 2 /\ effectInit = 2
  /\ initPc[2] = "attach" /\ connState[2] = "connecting"
  /\ clientId[2] = username /\ clientId[1] = clientId[2]

\* ------------------------------------------------------------------ C29
\* a string that is not empty once trimmed
NonBlankString(v) == v.t = "string" /\ Trim(v.s) # << >>

\* the positions in the priority order whose field holds such a string
Candidates(data) ==
  {i \in 1..Len(ReplyPaths) : NonBlankString(data.f[ReplyPaths[i]])}

FirstCandidate(data) ==
  data.f[ReplyPaths[CHOOSE i \in Candidates(data) :
                      \A j \in Candidates(data) : i <= j]]

\* the body of a successful upstream response parsed to a structure
ParsedStructure ==
  /\ UpstreamSuccess
  /\ JSONParse(rawResponseText).ok
  /\ JSONParse(rawResponseText).data.t = "object"

\* C29: on a successful upstream response the reply is the first candidate
\* field, in the priority order, that is a non-empty string; a field of
\* higher priority that is no string or only white space does not stand in
\* the way of a later one.
C29_FirstNonEmptyStringReturned ==
  (ParsedStructure /\ Candidates(JSONParse(rawResponseText).data) # {})
    => aiResult =
         Json(200, Trim(FirstCandidate(JSONParse(rawResponseText).data).s))

\* ------------------------------------------------------------------ C30
\* a successful upstream response without extractable text: an empty or
\* blank body, or a structure none of whose candidate fields holds a
\* non-empty string
NoExtractableText ==
  /\ UpstreamSuccess
  /\ \/ Trim(rawResponseText) = << >>
     \/ /\ ParsedStructure
        /\ Candidates(JSONParse(rawResponseText).data) = {}

\* C30: a successful upstream response without extractable text is answered
\* with status 200 and the one unavailability message, never with another
\* fallback text.
C30_NoTextGivesUnavailable ==
  NoExtractableText => aiResult = Json(200, UnavailableText)

\* ------------------------------------------------------------------ C31
\* the text `part' occurs in the text `whole'
Embeds(whole, part) ==
  \E i \in 1..(Len(whole) + 1) :
    /\ i + Len(part) - 1 <= Len(whole)
    /\ SubSeq(whole, i, i + Len(part) - 1) = part

\* C31: an invocation issues at most one call to the completion endpoint,
\* and none when validation fails or the route is disabled; a disabled route
\* answers a valid message with status 200 and a canned reply that embeds
\* the trimmed message.  Nothing is kept between invocations: what a new
\* invocation starts with is fixed by its request alone.
C31_AtMostOneOutboundCall ==
  [][/\ Len(fetchCalls') <= 1
     /\ (~CarriesMessage' \/ ~aiRequest'.enabled) => fetchCalls' = << >>
     /\ (Returned' /\ CarriesMessage' /\ ~aiRequest'.enabled)
          => /\ aiResult'.status = 200
             /\ Embeds(aiResult'.body.reply, Trim(aiRequest'.message.s))
             /\ Len(aiResult'.body.reply) > Len(Trim(aiRequest'.message.s))
     /\ (aiRequest' # aiRequest \/ (aiPc = "done" /\ aiPc' # "done"))
          => /\ response' = NoUpstream
             /\ rawResponseText' = << >>
             /\ controller' = [aborted |-> FALSE]
             /\ (CarriesMessage' /\ aiRequest'.enabled)
                  => /\ aiPc' = "fetch" /\ timeoutId' = "armed"
                     /\ aiResult' = NoResult
                     /\ fetchCalls' =
                          <<[prompt |-> Trim(aiRequest'.message.s),
                             message |-> Trim(aiRequest'.message.s)]>>
     /\ (aiPc # "done" /\ aiPc # "idle") => fetchCalls' = fetchCalls]_vars

\* C31 witness: the disabled route has answered a padded message with a
\* canned reply quoting it trimmed, and no call went out
C31_Witness ==
  /\ Returned /\ ~aiRequest.enabled
  /\ aiRequest.message = Str(<<" ", "hi", " ">>)
  /\ aiResult.status = 200 /\ Embeds(aiResult.body.reply, <<"hi">>)
  /\ fetchCalls = << >>

\* ------------------------------------------------------------------ C32
\* the backend connections of the tab that are open
OpenConnections(connF) ==
  {s \in Sessions : connF[s] \in {"connecting", "connected", "disconnected"}}

\* C32: the tab holds at most one open backend connection, and the handles
\* in ablyClientRef and channelRef are only ever set to the connection and
\* channel of the initialization started last: an earlier initialization
\* that gets its token late opens no second connection and does not
\* overwrite the handles.
C32_OneConnectionLatestHandles ==
  [][/\ Cardinality(OpenConnections(connState')) <= 1
     /\ ablyClientRef' # ablyClientRef => ablyClientRef' = nInit'
     /\ channelRef' # channelRef => channelRef' = nInit']_vars

\* ------------------------------------------------------------------ C33
\* C33: the connected flag of a shown chat is true only while the connection
\* of the current session is connected; after a teardown that closes the
\* connection it is false until the new connection reports 'connected'.
\* Stated for the states in which no connection of an earlier initialization
\* is open.
C33_ConnectedFlagFollowsConnection ==
  (/\ mounted /\ isConnected
   /\ OpenConnections(connState) \subseteq {effectInit})
    => /\ effectInit # 0
       /\ connState[effectInit] = "connected"

\* ------------------------------------------------------------------ C34
\* one initialization with its connection: every outcome of the token
\* request, of the awaited channel and presence calls and of the connection
NextLoading ==
  \/ GenerateUsername
  \/ Unmount
  \/ \E s \in Sessions : TokenOk(s)
  \/ \E s \in Sessions : TokenFail(s)
  \/ \E s \in Sessions : AttachOk(s)
  \/ \E s \in Sessions : PresenceGetOk(s)
  \/ \E s \in Sessions : PresenceEnterOk(s)
  \/ \E s \in Sessions : InitStepFail(s)
  \/ \E s \in Sessions : HistoryAnswered(s)
  \/ \E s \in Sessions : HistoryOk(s)
  \/ \E s \in Sessions : HistoryFail(s)
  \/ \E s \in Sessions : ConnConnected(s)
  \/ \E s \in Sessions : ConnDisconnected(s)
  \/ \E s \in Sessions : ConnFailed(s)
  \/ OtherPublish
  \/ \E o \in OtherConns, c \in Names : OtherEnter(o, c)
  \/ \E o \in OtherConns : OtherLeave(o)

\* an awaited call settles: the token fetch resolves or rejects, and an
\* awaited channel or presence call resolves or rejects (the Ably client
\* rejects a call pending on a connection that does not come up).  Nothing
\* is assumed of the connection events: a connection may stay connecting or
\* disconnected for ever.
AwaitsSettle ==
  \A s \in Sessions :
    /\ WF_vars(TokenOk(s) \/ TokenFail(s))
    /\ WF_vars(AttachOk(s) \/ PresenceGetOk(s) \/ PresenceEnterOk(s)
                 \/ InitStepFail(s))

SpecLoading == Init /\ [][NextLoading]_vars /\ AwaitsSettle

TimerAndAbortRun == WF_vars(TimerFires) /\ WF_vars(FetchAborted)

SpecReplyLive == Init /\ [][NextReply]_vars /\ TimerAndAbortRun

\* C35: every invocation eventually returns a response whatever the upstream
\* does, also when it sends headers and never finishes the body: the bounded
\* wait covers the exchange up to the end of the body.
C35_InvocationReturns ==
  (aiPc \in {"fetch", "body"}) ~> Returned

====
